---- MODULE Spec2Model ----
(***************************************************************************)
(* Model of the requirements-analysis workflow of sdlc_agents:             *)
(* AnalysisWorkflow (agents/analysis_workflow.py) with its three phase     *)
(* handlers, its three conditional-edge functions, the graph built by      *)
(* create_workflow and the driver run, together with the collaborators     *)
(* the handlers call (AnalysisAgent, OutputValidationAgent,                *)
(* HumanInterventionAgent, save_artifact).                                 *)
(*                                                                         *)
(* A behaviour is either one execution of run(input) ("run"), in which the *)
(* compiled graph decides which handler executes next, or a harness that   *)
(* calls the phase handlers one after the other on the state the previous  *)
(* one returned ("direct"), as tests/test_analysis_workflow.py does.       *)
(*                                                                         *)
(* Texts are modelled by the strings the code builds; a generated document *)
(* is "generated", a reviewed one "reviewed". The outcome of each          *)
(* collaborator call is an input of the model: the Generator's is chosen   *)
(* at the call, the Validator's and the Escalation's are fixed when the    *)
(* behaviour starts (vplan, hplan), the way a test double is scripted.     *)
(***************************************************************************)
EXTENDS Integers, Sequences, FiniteSets, TLC

VARIABLES
    mode,       \* "run": one execution of run(input); "direct": handlers called one by one
    input,      \* the argument of run / the requirements of the initial AnalysisState
    st,         \* the AnalysisState threaded through the handlers
    node,       \* run: the next graph node ("start", a node name, "END", "returned")
    result,     \* the mapping run returned, Pending before it returns
    steps,      \* handler invocations so far
    gcalls,     \* calls of analysis_agent.process so far
    vcalls,     \* calls of validation_agent.validate so far
    hcalls,     \* calls of human_intervention_agent.process so far
    vplan,      \* the Validator's scripted outcomes, by call number
    hplan,      \* the Escalation's scripted outcome
    artifact,   \* the content of ACCEPTANCE_CRITERIA_PATH, NoFile when absent
    last,       \* what the last handler invocation did
    agent_retry_count,  \* self.retry_count of each agent of the workflow
    sess,       \* concurrent runs of one workflow: each run's input, state, node, result
    writers,    \* concurrent runs: the runs that have written each agent's retry_count
    self_max_retries    \* self.max_retries of the workflow

vars == <<mode, input, st, node, result, steps, gcalls, vcalls, hcalls,
          vplan, hplan, artifact, last, agent_retry_count, sess, writers,
          self_max_retries>>

----------------------------------------------------------------------------
\* Bounds of the model.

\* Handler invocations explored in one behaviour.
MaxSteps == 10

\* Length of the Validator's script; calls beyond it repeat its last entry.
PlanLen == 3

\* Runs of one workflow that execute concurrently.
NumSessions == 2

\* The edge functions are applied to states whose retry_count goes up to
\* max_retries + CountSlack.
CountSlack == 2

\* The largest value the caller of a workflow assigns to its max_retries.
MaxCap == 4

\* Program constants.

\* AnalysisWorkflow.__init__: self.max_retries = 3, the value the attribute has
\* unless the caller of the workflow assigns another.
max_retries == 3

\* OutputValidationAgent.process: the literal 3 of needs_retry / needs_human
ValidatorRetryLimit == 3

----------------------------------------------------------------------------
\* Values.

Malformed == "<not a str>"
Inputs == {"", "req", Malformed}

NoFile == "<no file>"
Generated == "generated"
Reviewed == "reviewed"

GenOutcomes == {"ok", "fail", "raise"}
ValOutcomes == {"pass", "fail", "raise"}
\* "agent": the repository's HumanInterventionAgent as written.
EscOutcomes == {"agent", "approve", "reject", "raise"}

Pending == [pending |-> TRUE]

\* AnalysisWorkflow.__init__: the three agents, each with retry_count = 0.
Agents == {"analysis_agent", "validation_agent", "human_intervention_agent"}
NoRetries == [a \in Agents |-> 0]

\* AnalysisState: the field defaults of the pydantic model.
AnalysisState(requirements) ==
    [requirements        |-> requirements,
     acceptance_criteria |-> "",
     validation_status   |-> FALSE,
     retry_count         |-> 0,
     error_message       |-> "",
     metadata            |-> [generator |-> FALSE, validation_details |-> "absent"],
     is_complete         |-> FALSE,
     current_step        |-> "analyze"]

----------------------------------------------------------------------------
\* Collaborators.

\* AnalysisAgent._generate_acceptance_criteria: the document written for the
\* requirements; other requirements, another document.
GeneratedFor(requirements) ==
    IF requirements = "req" THEN Generated ELSE Generated \o " for " \o requirements

\* AnalysisAgent.process without its save_artifact of the generated document.
AnalysisAgentProcessNoSave(requirements, g) ==
    IF requirements = "" THEN
        [success |-> FALSE, error |-> "No requirements provided", saved |-> NoFile]
    ELSE IF g = "ok" THEN
        [success |-> TRUE, acceptance_criteria |-> GeneratedFor(requirements),
         saved |-> NoFile]
    ELSE
        [success |-> FALSE, error |-> "Failed to generate acceptance criteria",
         saved |-> NoFile]

\* AnalysisAgent.process: empty requirements and any failure of the generation
\* or of its save_artifact end in handle_failure; a success has already
\* written the generated document to ACCEPTANCE_CRITERIA_PATH.
AnalysisAgentProcess(requirements, g) ==
    IF requirements = "" THEN
        [success |-> FALSE, error |-> "No requirements provided", saved |-> NoFile]
    ELSE IF g = "ok" THEN
        [success |-> TRUE, acceptance_criteria |-> GeneratedFor(requirements),
         saved |-> GeneratedFor(requirements)]
    ELSE
        [success |-> FALSE, error |-> "Failed to generate acceptance criteria",
         saved |-> NoFile]

\* OutputValidationAgent.process with the counter consulted before the
\* verdict: a document is accepted only below the limit.
OutputValidationAgentProcessCapFirst(retry_count, ok) ==
    LET accepted    == ok /\ retry_count < ValidatorRetryLimit
        needs_retry == ~accepted /\ retry_count < ValidatorRetryLimit
        needs_human == ~accepted /\ retry_count >= ValidatorRetryLimit
    IN  [success            |-> accepted,
         needs_retry        |-> needs_retry,
         needs_human        |-> needs_human,
         retry_count        |-> IF needs_retry THEN retry_count + 1 ELSE retry_count,
         reason             |-> IF accepted THEN "Validation successful"
                                            ELSE "Validation failed: missing sections",
         validation_details |-> IF accepted THEN "passed" ELSE "failed"]

\* OutputValidationAgent.process answering a retry with the retry_count it
\* was given.
OutputValidationAgentProcessNoCount(retry_count, ok) ==
    LET needs_retry == ~ok /\ retry_count < ValidatorRetryLimit
        needs_human == ~ok /\ retry_count >= ValidatorRetryLimit
    IN  [success            |-> ok,
         needs_retry        |-> needs_retry,
         needs_human        |-> needs_human,
         retry_count        |-> retry_count,
         reason             |-> IF ok THEN "Validation successful"
                                      ELSE "Validation failed: missing sections",
         validation_details |-> IF ok THEN "passed" ELSE "failed"]

\* OutputValidationAgent.process, for a non-empty output_data: ok is the
\* verdict of _validate_output on the text.
OutputValidationAgentProcess(retry_count, ok) ==
    LET needs_retry == ~ok /\ retry_count < ValidatorRetryLimit
        needs_human == ~ok /\ retry_count >= ValidatorRetryLimit
    IN  [success            |-> ok,
         needs_retry        |-> needs_retry,
         needs_human        |-> needs_human,
         retry_count        |-> IF needs_retry THEN retry_count + 1 ELSE retry_count,
         reason             |-> IF ok THEN "Validation successful"
                                      ELSE "Validation failed: missing sections",
         validation_details |-> IF ok THEN "passed" ELSE "failed"]

\* Whether a validation_details entry carries a non-empty list of failures:
\* the one _validate_acceptance_criteria returns with a failed verdict does
\* (the verdict is failed exactly when the list is non-empty); the entries
\* written by the handlers hold a status, and a message at most.
ItemizedFailures(details) == details = "failed"

\* HumanInterventionAgent.process on the keys it is given: it reads stage,
\* output_type and output_data, and without all three it fails before any
\* review is requested.
HumanInterventionAgentProcess(keys) ==
    IF ~({"stage", "output_type", "output_data"} \subseteq keys) THEN
        [success |-> FALSE, error |-> "Missing required intervention inputs",
         saved |-> NoFile]
    ELSE
        \* _simulate_human_feedback approves; the reviewed text is returned
        \* under "updated_output" and saved by the agent itself.
        [success |-> TRUE, updated_output |-> Reviewed, saved |-> Reviewed]

\* BaseSDLCAgent.handle_failure: the agent's own retry_count after it.
handle_failure(retry_count) == retry_count + 1

\* analysis_agent.process ended in handle_failure.
AnalysisAgentFailed(requirements, g) ==
    g # "raise" /\ ~AnalysisAgentProcess(requirements, g).success

\* The keys _handle_human_intervention passes to human_intervention_agent.process.
InterventionKeys == {"requirements", "acceptance_criteria", "error_message"}

\* human_intervention_agent.process ended in handle_failure.
HumanAgentFailed(h) ==
    h = "agent" /\ ~HumanInterventionAgentProcess(InterventionKeys).success

\* The Validator's outcome at its k-th call.
PlanAt(plan, k) == plan[IF k <= Len(plan) THEN k ELSE Len(plan)]

----------------------------------------------------------------------------
\* Phase handlers. Each returns the new state (st), whether the collaborator
\* was called (called), what was written to ACCEPTANCE_CRITERIA_PATH (saved,
\* NoFile when nothing was) and what happened (ev).

NoOp(s) == [st |-> s, called |-> FALSE, saved |-> NoFile, ev |-> "noop"]

\* The except branch of _analyze_requirements without its error_message.
AnalyzeFailedSilently(s, msg) ==
    [s EXCEPT !.validation_status = FALSE,
              !.is_complete = TRUE,
              !.current_step = "end"]

\* The except branch of _analyze_requirements without is_complete = True.
AnalyzeFailedNotDone(s, msg) ==
    [s EXCEPT !.error_message = msg,
              !.validation_status = FALSE]

\* The except branch of _analyze_requirements counting the failure as a retry.
AnalyzeFailedRetryCounted(s, msg) ==
    [s EXCEPT !.error_message = msg,
              !.validation_status = FALSE,
              !.retry_count = @ + 1,
              !.is_complete = TRUE,
              !.current_step = "end"]

\* The except branch of _analyze_requirements.
AnalyzeFailed(s, msg) ==
    [s EXCEPT !.error_message = msg,
              !.validation_status = FALSE,
              !.is_complete = TRUE,
              !.current_step = "end"]

\* _analyze_requirements from the call of analysis_agent.process on.
AnalyzeCall(s, g) ==
    LET r == AnalysisAgentProcess(s.requirements, g) IN
    IF g = "raise" THEN
        [st |-> AnalyzeFailed(s, "Analysis failed: <exception>"),
         called |-> TRUE, saved |-> NoFile, ev |-> "analyze_failed"]
    ELSE IF r.success THEN
        [st |-> [s EXCEPT !.acceptance_criteria = r.acceptance_criteria,
                          !.metadata = [generator |-> TRUE,
                                        validation_details |-> "absent"],
                          !.error_message = "",
                          !.validation_status = FALSE,
                          !.current_step = "validate"],
         called |-> TRUE, saved |-> r.saved, ev |-> "analyze_ok"]
    ELSE
        [st |-> AnalyzeFailed(s, "Analysis failed: " \o r.error),
         called |-> TRUE, saved |-> NoFile, ev |-> "analyze_failed"]

\* The try block of _analyze_requirements.
AnalyzeBody(s, g) ==
    IF s.requirements = "" THEN
        [st |-> AnalyzeFailed(s, "Analysis failed: No requirements provided"),
         called |-> FALSE, saved |-> NoFile, ev |-> "analyze_no_input"]
    ELSE AnalyzeCall(s, g)

\* _analyze_requirements storing the generated document as the requirements
\* too.
analyze_requirements_rewrites_requirements(s, g) ==
    IF s.is_complete THEN NoOp(s)
    ELSE LET r == AnalyzeBody(s, g) IN
         [r EXCEPT !.st.requirements = r.st.acceptance_criteria]

\* _analyze_requirements without its check of the requirements.
analyze_requirements_no_input_check(s, g) ==
    IF s.is_complete THEN NoOp(s) ELSE AnalyzeCall(s, g)

\* _analyze_requirements without its assignment of acceptance_criteria.
analyze_requirements_drops_criteria(s, g) ==
    IF s.is_complete THEN NoOp(s)
    ELSE LET r == AnalyzeBody(s, g) IN
         [r EXCEPT !.st.acceptance_criteria = s.acceptance_criteria]

\* AnalysisWorkflow._analyze_requirements
analyze_requirements(s, g) ==
    IF s.is_complete THEN NoOp(s) ELSE AnalyzeBody(s, g)

\* The except branch of _validate_criteria without its validation_details.
ValidateRaisedNoDetails(s, msg) ==
    [s EXCEPT !.error_message = msg,
              !.validation_status = FALSE,
              !.current_step = "retry",
              !.retry_count = @ + 1]

\* The except branch of _validate_criteria.
ValidateRaised(s, msg) ==
    [s EXCEPT !.error_message = msg,
              !.validation_status = FALSE,
              !.metadata.validation_details = "error",
              !.current_step = "retry",
              !.retry_count = @ + 1]

\* The try block of _validate_criteria.
ValidateBody(s, v) ==
    IF s.acceptance_criteria = "" THEN
        [st |-> ValidateRaised(s, "Validation failed: No acceptance criteria to validate"),
         called |-> FALSE, saved |-> NoFile, ev |-> "validate_no_criteria"]
    ELSE IF v = "raise" THEN
        [st |-> ValidateRaised(s, "Validation failed: <exception>"),
         called |-> TRUE, saved |-> NoFile, ev |-> "validate_raised"]
    ELSE
        LET r  == OutputValidationAgentProcess(s.retry_count, v = "pass")
            s1 == [s EXCEPT !.validation_status = r.success,
                            !.metadata.validation_details = r.validation_details]
        IN  IF r.success THEN
                [st |-> [s1 EXCEPT !.is_complete = TRUE, !.current_step = "end"],
                 called |-> TRUE, saved |-> s1.acceptance_criteria,
                 ev |-> "validate_passed"]
            ELSE IF r.needs_human THEN
                [st |-> [s1 EXCEPT !.current_step = "human_intervention",
                                   !.error_message =
                                       "Validation failed after maximum retries"],
                 called |-> TRUE, saved |-> NoFile, ev |-> "validate_escalate"]
            ELSE
                [st |-> [s1 EXCEPT !.current_step = "retry",
                                   !.retry_count = r.retry_count,
                                   !.error_message = r.reason,
                                   !.acceptance_criteria = ""],
                 called |-> TRUE, saved |-> NoFile, ev |-> "validate_retry"]

\* AnalysisWorkflow._validate_criteria
validate_criteria(s, v) ==
    IF s.is_complete THEN NoOp(s) ELSE ValidateBody(s, v)

\* The failure branches of _handle_human_intervention without
\* is_complete = True.
HumanFailedNotDone(s, msg) ==
    [s EXCEPT !.error_message = msg,
              !.validation_status = FALSE,
              !.current_step = "end"]

\* The failure branches of _handle_human_intervention.
HumanFailed(s, msg) ==
    [s EXCEPT !.error_message = msg,
              !.validation_status = FALSE,
              !.is_complete = TRUE,
              !.current_step = "end"]

\* The success branch of _handle_human_intervention without its assignment
\* of acceptance_criteria.
HumanApprovedKeepsCriteria(s, text) ==
    [s EXCEPT !.validation_status = TRUE,
              !.error_message = "",
              !.metadata.validation_details = "human_reviewed",
              !.is_complete = TRUE,
              !.current_step = "end"]

\* The success branch of _handle_human_intervention.
HumanApproved(s, text) ==
    [s EXCEPT !.acceptance_criteria = text,
              !.validation_status = TRUE,
              !.error_message = "",
              !.metadata.validation_details = "human_reviewed",
              !.is_complete = TRUE,
              !.current_step = "end"]

\* The try block of _handle_human_intervention. h = "agent" is the
\* repository's HumanInterventionAgent, called with the keys the handler
\* passes; the other outcomes are those of an escalation that answers in the
\* shape the handler reads (success, acceptance_criteria, error).
HumanBody(s, h) ==
    IF h = "raise" THEN
        [st |-> HumanFailed(s, "Human intervention failed: <exception>"),
         called |-> TRUE, saved |-> NoFile, ev |-> "human_raised"]
    ELSE IF h = "approve" THEN
        [st |-> HumanApproved(s, Reviewed),
         called |-> TRUE, saved |-> Reviewed, ev |-> "human_approved"]
    ELSE IF h = "reject" THEN
        [st |-> HumanFailed(s, "Human intervention failed: Human rejected the output"),
         called |-> TRUE, saved |-> NoFile, ev |-> "human_rejected"]
    ELSE
        LET r == HumanInterventionAgentProcess(InterventionKeys)
        IN  IF r.success THEN
                \* result["acceptance_criteria"] is not a key of the agent's
                \* answer: KeyError, caught by the handler.
                [st |-> HumanFailed(s, "Human intervention failed: 'acceptance_criteria'"),
                 called |-> TRUE, saved |-> r.saved, ev |-> "human_raised"]
            ELSE
                [st |-> HumanFailed(s, "Human intervention failed: " \o r.error),
                 called |-> TRUE, saved |-> NoFile, ev |-> "human_rejected"]

\* _handle_human_intervention without its check of is_complete.
handle_human_intervention_no_done_check(s, h) == HumanBody(s, h)

\* AnalysisWorkflow._handle_human_intervention
handle_human_intervention(s, h) ==
    IF s.is_complete THEN NoOp(s) ELSE HumanBody(s, h)

----------------------------------------------------------------------------
\* Conditional edges. Each is given a state object of its own, so what it
\* assigns to it (is_complete, current_step) is not seen by the graph: only
\* the label it returns is.

\* AnalysisWorkflow._should_validate
should_validate(s) ==
    IF s.is_complete \/ s.error_message # "" THEN "end"
    ELSE IF s.current_step = "analyze" THEN "validate"
    ELSE "end"

\* _should_retry escalating only above max_retries.
should_retry_above_cap(s) ==
    IF s.is_complete \/ s.error_message # "" THEN "end"
    ELSE IF s.validation_status THEN "end"
    ELSE IF s.retry_count > self_max_retries THEN "human_intervention"
    ELSE "retry"

\* AnalysisWorkflow._should_retry
should_retry(s) ==
    IF s.is_complete \/ s.error_message # "" THEN "end"
    ELSE IF s.validation_status THEN "end"
    ELSE IF s.retry_count >= self_max_retries THEN "human_intervention"
    ELSE "retry"

\* AnalysisWorkflow._should_end
should_end(s) ==
    IF s.is_complete \/ s.error_message # "" THEN "end"
    ELSE IF s.validation_status THEN "end"
    ELSE "retry"

\* The state object after _should_validate: it assigns nothing.
should_validate_state(s) == s

\* The state object after _should_retry: _ensure_state hands back the
\* AnalysisState it was given, so the caller sees what the function assigned.
should_retry_state(s) ==
    IF s.is_complete \/ s.error_message # "" THEN s
    ELSE IF s.validation_status THEN [s EXCEPT !.is_complete = TRUE]
    ELSE IF s.retry_count >= self_max_retries THEN s
    ELSE [s EXCEPT !.current_step = "analyze"]

\* The state object after _should_end.
should_end_state(s) ==
    IF s.is_complete \/ s.error_message # "" THEN s
    ELSE IF s.validation_status THEN [s EXCEPT !.is_complete = TRUE]
    ELSE s

\* The node a label stands for in the maps given to add_conditional_edges.
EdgeTarget(label) ==
    CASE label = "validate"           -> "validate_criteria"
      [] label = "retry"              -> "analyze_requirements"
      [] label = "human_intervention" -> "human_intervention"
      [] label = "end"                -> "END"

\* Routing by the step the handler recorded, not by the edge functions.
RouteByCurrentStep(n, s) == EdgeTarget(s.current_step)

\* AnalysisWorkflow.create_workflow: the node that follows node n in state s.
Route(n, s) ==
    CASE n = "analyze_requirements" -> EdgeTarget(should_validate(s))
      [] n = "validate_criteria"    -> EdgeTarget(should_retry(s))
      [] n = "human_intervention"   -> EdgeTarget(should_end(s))

\* The reason, if any, that run reads from metadata["validation_details"].
ReasonOr(details, default) ==
    CASE details = "failed" -> "Validation failed: missing sections"
      [] details = "passed" -> "Validation successful"
      [] OTHER              -> default

\* run with success taken from validation_status, not from error_message.
RunResultSuccessFromValidation(s) ==
    [success             |-> s.validation_status,
     requirements        |-> s.requirements,
     acceptance_criteria |-> s.acceptance_criteria,
     validation_status   |-> s.validation_status,
     retry_count         |-> s.retry_count,
     error_message       |-> s.error_message,
     metadata            |-> s.metadata,
     is_complete         |-> s.is_complete,
     current_step        |-> s.current_step]

\* AnalysisWorkflow.run, after ainvoke returned state s.
RunResult(s) ==
    LET success == (s.error_message = "") IN
    [success             |-> success,
     requirements        |-> s.requirements,
     acceptance_criteria |-> s.acceptance_criteria,
     validation_status   |-> s.validation_status,
     retry_count         |-> s.retry_count,
     error_message       |-> IF ~success /\ s.metadata.validation_details # "absent"
                             THEN ReasonOr(s.metadata.validation_details, s.error_message)
                             ELSE s.error_message,
     metadata            |-> s.metadata,
     is_complete         |-> s.is_complete,
     current_step        |-> s.current_step]

\* AnalysisWorkflow.run, its except branch.
RunFailed == [success |-> FALSE, error_message |-> "Workflow failed: <exception>"]

----------------------------------------------------------------------------
\* The state machine.

Init ==
    /\ mode \in {"run", "direct"}
    /\ input \in (IF mode = "run" THEN Inputs ELSE Inputs \ {Malformed})
    /\ st = AnalysisState(IF input = Malformed THEN "" ELSE input)
    /\ node = IF mode = "run" THEN "start" ELSE "direct"
    /\ result = Pending
    /\ steps = 0
    /\ gcalls = 0
    /\ vcalls = 0
    /\ hcalls = 0
    /\ vplan \in [1..PlanLen -> ValOutcomes]
    /\ hplan \in EscOutcomes
    /\ artifact = NoFile
    /\ last = "none"
    /\ agent_retry_count = NoRetries
    /\ sess = << >>
    /\ writers = [a \in Agents |-> {}]
    /\ self_max_retries = max_retries

\* A handler may execute: the graph reached its node, or the harness calls it.
MayExecute(n) ==
    /\ steps < MaxSteps
    /\ \/ mode = "run" /\ node = n
       \/ mode = "direct"

\* What an invocation of node n with outcome r leaves, but for the call counts.
Executed(n, r) ==
    /\ st' = r.st
    /\ artifact' = IF r.saved = NoFile THEN artifact ELSE r.saved
    /\ last' = r.ev
    /\ steps' = steps + 1
    /\ node' = IF mode = "run" THEN Route(n, r.st) ELSE node
    /\ UNCHANGED <<mode, input, result, vplan, hplan, sess, writers,
                   self_max_retries>>

\* run: initial_state = AnalysisState(requirements=..., current_step="analyze"),
\* which raises for an argument that is no string.
RunStart ==
    /\ mode = "run" /\ node = "start"
    /\ IF input = Malformed
       THEN /\ result' = RunFailed
            /\ node' = "returned"
            /\ st' = st
       ELSE /\ st' = AnalysisState(input)
            /\ node' = "analyze_requirements"
            /\ result' = result
    /\ UNCHANGED <<mode, input, steps, gcalls, vcalls, hcalls, vplan, hplan,
                   artifact, last, agent_retry_count, sess, writers,
                   self_max_retries>>

Analyze ==
    /\ MayExecute("analyze_requirements")
    /\ \E g \in GenOutcomes :
         LET r == analyze_requirements(st, g) IN
         /\ Executed("analyze_requirements", r)
         /\ gcalls' = IF r.called THEN gcalls + 1 ELSE gcalls
         /\ agent_retry_count' =
                IF r.called /\ AnalysisAgentFailed(st.requirements, g)
                THEN [agent_retry_count EXCEPT !.analysis_agent = handle_failure(@)]
                ELSE agent_retry_count
    /\ UNCHANGED <<vcalls, hcalls>>

Validate ==
    /\ MayExecute("validate_criteria")
    /\ LET r == validate_criteria(st, PlanAt(vplan, vcalls + 1)) IN
         /\ Executed("validate_criteria", r)
         /\ vcalls' = IF r.called THEN vcalls + 1 ELSE vcalls
    /\ UNCHANGED <<gcalls, hcalls, agent_retry_count>>

HumanIntervention ==
    /\ MayExecute("human_intervention")
    /\ LET r == handle_human_intervention(st, hplan) IN
         /\ Executed("human_intervention", r)
         /\ hcalls' = IF r.called THEN hcalls + 1 ELSE hcalls
         /\ agent_retry_count' =
                IF r.called /\ HumanAgentFailed(hplan)
                THEN [agent_retry_count EXCEPT !.human_intervention_agent = handle_failure(@)]
                ELSE agent_retry_count
    /\ UNCHANGED <<gcalls, vcalls>>

\* run: the graph reached END; the final state is returned with success.
RunReturn ==
    /\ mode = "run" /\ node = "END"
    /\ result' = RunResult(st)
    /\ node' = "returned"
    /\ UNCHANGED <<mode, input, st, steps, gcalls, vcalls, hcalls, vplan, hplan,
                   artifact, last, agent_retry_count, sess, writers,
                   self_max_retries>>

Next ==
    \/ RunStart
    \/ Analyze
    \/ Validate
    \/ HumanIntervention
    \/ RunReturn

Spec == Init /\ [][Next]_vars

\* A started run goes on: every await of a collaborator returns or raises.
FairSpec == Spec /\ WF_vars(Next)

----------------------------------------------------------------------------
\* Concurrent runs of one AnalysisWorkflow. Each run(requirements) builds its
\* own AnalysisState and its own compiled graph; the agents (self.analysis_agent,
\* ...) and ACCEPTANCE_CRITERIA_PATH belong to the workflow and the process.
\* The runs interleave where a handler awaits its collaborator, that is
\* between handler invocations.

Sessions == 1..NumSessions

\* The requirements the concurrent runs are given.
ConcInputs == {"", "req", "other req"}

\* run, for an argument that is a string: the session before its first node.
NewSession(requirements) ==
    [input  |-> requirements,
     st     |-> AnalysisState(requirements),
     node   |-> "start",
     result |-> Pending]

ConcInit ==
    /\ mode = "concurrent"
    /\ sess \in [Sessions -> {NewSession(i) : i \in ConcInputs}]
    /\ agent_retry_count = NoRetries
    /\ writers = [a \in Agents |-> {}]
    /\ self_max_retries = max_retries
    /\ artifact = NoFile
    /\ input = ""
    /\ st = AnalysisState("")
    /\ node = "concurrent"
    /\ result = Pending
    /\ steps = 0
    /\ gcalls = 0
    /\ vcalls = 0
    /\ hcalls = 0
    /\ vplan = [k \in 1..PlanLen |-> "fail"]
    /\ hplan = "agent"
    /\ last = "none"

\* What the concurrent runs leave alone.
ConcFrame ==
    UNCHANGED <<mode, input, st, node, result, steps, gcalls, vcalls, hcalls,
                vplan, hplan, last, self_max_retries>>

\* run of session i: the graph is compiled and entered.
ConcStart(i) ==
    /\ mode = "concurrent" /\ sess[i].node = "start"
    /\ sess' = [sess EXCEPT ![i].node = "analyze_requirements"]
    /\ UNCHANGED <<artifact, agent_retry_count, writers>>
    /\ ConcFrame

\* The agent whose handle_failure ran in the invocation of node n, if any.
FailedAgent(n, s, g, h) ==
    IF n = "analyze_requirements" /\ AnalysisAgentFailed(s.requirements, g)
    THEN {"analysis_agent"}
    ELSE IF n = "human_intervention" /\ HumanAgentFailed(h)
    THEN {"human_intervention_agent"}
    ELSE {}

\* Session i executes the handler of the node its graph has reached.
ConcExecute(i) ==
    /\ mode = "concurrent"
    /\ sess[i].node \in {"analyze_requirements", "validate_criteria",
                         "human_intervention"}
    /\ \E g \in GenOutcomes, v \in ValOutcomes, h \in EscOutcomes :
         LET n == sess[i].node
             s == sess[i].st
             r == CASE n = "analyze_requirements" -> analyze_requirements(s, g)
                    [] n = "validate_criteria"    -> validate_criteria(s, v)
                    [] n = "human_intervention"   -> handle_human_intervention(s, h)
             failed == IF r.called THEN FailedAgent(n, s, g, h) ELSE {}
         IN  /\ sess' = [sess EXCEPT ![i].st = r.st, ![i].node = Route(n, r.st)]
             /\ artifact' = IF r.saved = NoFile THEN artifact ELSE r.saved
             /\ agent_retry_count' =
                    [a \in Agents |-> IF a \in failed
                                      THEN handle_failure(agent_retry_count[a])
                                      ELSE agent_retry_count[a]]
             /\ writers' = [a \in Agents |-> IF a \in failed
                                             THEN writers[a] \cup {i}
                                             ELSE writers[a]]
    /\ ConcFrame

\* run of session i returns the final state of its graph.
ConcReturn(i) ==
    /\ mode = "concurrent" /\ sess[i].node = "END"
    /\ sess' = [sess EXCEPT ![i].result = RunResult(sess[i].st),
                            ![i].node = "returned"]
    /\ UNCHANGED <<artifact, agent_retry_count, writers>>
    /\ ConcFrame

ConcNext ==
    \E i \in Sessions :
        \/ ConcStart(i)
        \/ ConcExecute(i)
        \/ ConcReturn(i)

ConcSpec == ConcInit /\ [][ConcNext]_vars

----------------------------------------------------------------------------
\* The edge functions called on their own, as test_workflow_retry_logic does:
\* the caller builds an AnalysisState field by field and hands the object to
\* _should_validate, _should_retry or _should_end, any number of times.

Steps == {"analyze", "validate", "retry", "human_intervention", "end"}

\* AnalysisState(...) with fields given by the caller.
EdgeStates ==
    [requirements        : {"req"},
     acceptance_criteria : {"", Generated},
     validation_status   : BOOLEAN,
     retry_count         : 0..(max_retries + CountSlack),
     error_message       : {"", "Validation failed: missing sections"},
     metadata            : {[generator |-> FALSE, validation_details |-> "absent"]},
     is_complete         : BOOLEAN,
     current_step        : Steps]

EdgeInit ==
    /\ mode = "edge"
    /\ st \in EdgeStates
    /\ input = st.requirements
    /\ node = "edge"
    /\ result = Pending
    /\ steps = 0
    /\ gcalls = 0
    /\ vcalls = 0
    /\ hcalls = 0
    /\ vplan = [k \in 1..PlanLen |-> "fail"]
    /\ hplan = "agent"
    /\ artifact = NoFile
    /\ last = "none"
    /\ agent_retry_count = NoRetries
    /\ sess = << >>
    /\ writers = [a \in Agents |-> {}]
    /\ self_max_retries = max_retries

\* What a call of an edge function leaves alone.
EdgeFrame ==
    UNCHANGED <<mode, input, node, steps, gcalls, vcalls, hcalls, vplan, hplan,
                artifact, agent_retry_count, sess, writers, self_max_retries>>

\* A call of edge function f: its label is returned, its object is kept.
EdgeCalled(f, label, object) ==
    /\ mode = "edge"
    /\ result' = [label |-> label]
    /\ st' = object
    /\ last' = f
    /\ EdgeFrame

CallShouldValidate ==
    EdgeCalled("should_validate", should_validate(st), should_validate_state(st))

CallShouldRetry ==
    EdgeCalled("should_retry", should_retry(st), should_retry_state(st))

CallShouldEnd ==
    EdgeCalled("should_end", should_end(st), should_end_state(st))

EdgeNext ==
    \/ CallShouldValidate
    \/ CallShouldRetry
    \/ CallShouldEnd

EdgeSpec == EdgeInit /\ [][EdgeNext]_vars

----------------------------------------------------------------------------
\* A workflow whose max_retries the caller has configured: the attribute is
\* assigned after construction, then the phase handlers are invoked on a
\* session on non-empty requirements.

Caps == 1..MaxCap

CapInit ==
    /\ mode = "direct"
    /\ self_max_retries \in Caps
    /\ input = "req"
    /\ st = AnalysisState(input)
    /\ node = "direct"
    /\ result = Pending
    /\ steps = 0
    /\ gcalls = 0
    /\ vcalls = 0
    /\ hcalls = 0
    /\ vplan \in [1..PlanLen -> {"pass", "fail"}]
    /\ hplan = "agent"
    /\ artifact = NoFile
    /\ last = "none"
    /\ agent_retry_count = NoRetries
    /\ sess = << >>
    /\ writers = [a \in Agents |-> {}]

CapNext ==
    \/ Analyze
    \/ Validate
    \/ HumanIntervention

CapSpec == CapInit /\ [][CapNext]_vars

----------------------------------------------------------------------------
\* Properties.

\* run has returned.
Returned == mode = "run" /\ node = "returned"

\* run has returned the final state of the graph (not its except branch).
ReturnedState == Returned /\ "is_complete" \in DOMAIN result

\* The Validator is scripted to fail every document.
ValidatorAlwaysFails == \A k \in DOMAIN vplan : vplan[k] = "fail"

\* C1. Escalation guarantee: a run on non-empty requirements in which the
\* Generator succeeds and the Validator fails every document does not end
\* before the escalation handler was executed.
C1_EscalationGuarantee ==
    (ReturnedState /\ input = "req" /\ last # "analyze_failed" /\ ValidatorAlwaysFails)
        => hcalls >= 1

\* C2. No unvalidated artifact is delivered: whenever run returns
\* success=true, the returned state has validation_status=true.
C2_SuccessImpliesValidated ==
    (Returned /\ result.success) => result.validation_status

\* C3. In run, once the Generator has succeeded in ANALYZE, the node that
\* executes next is validate_criteria, with criteria set and error cleared.
C3_AnalyzeThenValidate ==
    (mode = "run" /\ last = "analyze_ok")
        => /\ node = "validate_criteria"
           /\ st.acceptance_criteria # ""
           /\ st.error_message = ""

\* C4. Termination: every run returns, and no run executes more than
\* max_retries + 2 phase handlers.
C4_Termination ==
    /\ [](mode = "run" => steps <= max_retries + 2)
    /\ (mode = "run") ~> (node = "returned")

\* A run on non-empty requirements has gone through a phase and returned.
C4_Witness == ReturnedState /\ input = "req" /\ steps = 1 /\ gcalls = 1

\* C5. Retry bound: retry_count in the state run returns never exceeds
\* max_retries.
C5_RetryBound ==
    (Returned /\ "retry_count" \in DOMAIN result) => result.retry_count <= max_retries

\* A run whose Generator was called has returned a state with a retry_count.
C5_Witness == Returned /\ "retry_count" \in DOMAIN result /\ gcalls = 1

\* C6. Mutual exclusion: in what run returns, success is true exactly when
\* error_message is empty.
C6_MutualExclusion ==
    Returned => (result.success <=> result.error_message = "")

\* A run has failed in its Generator and returned.
C6_Witness == Returned /\ ~result.success /\ last = "analyze_failed"

\* C7. Idempotence of the terminal state: a phase handler invoked on a state
\* with is_complete=true returns it equal in every field, calls no
\* collaborator and writes no artifact.
C7_TerminalIdempotent ==
    [][(st.is_complete /\ steps' = steps + 1)
           => /\ st' = st
              /\ gcalls' = gcalls /\ vcalls' = vcalls /\ hcalls' = hcalls
              /\ artifact' = artifact]_vars

\* A handler has been invoked on a terminal state.
C7_Witness == mode = "direct" /\ st.is_complete /\ last = "noop"

\* C8. The state run returns is terminal: is_complete = true.
C8_ReturnsTerminal == ReturnedState => result.is_complete

\* C9. Empty input: run("") returns success=false, a non-empty
\* error_message and retry_count=0 after the one ANALYZE phase, and has
\* called neither the Generator, the Validator nor the Escalation.
C9_EmptyInput ==
    (Returned /\ input = "")
        => /\ ~result.success
           /\ result.error_message # ""
           /\ result.retry_count = 0
           /\ steps = 1
           /\ gcalls = 0 /\ vcalls = 0 /\ hcalls = 0

\* run("") has returned.
C9_Witness == Returned /\ input = "" /\ last = "analyze_no_input"

\* C10. Retry then success: on non-empty requirements, with a Generator that
\* succeeds and a Validator that fails the first two documents and passes
\* the third, run returns success=true with retry_count=2.
C10_RetryThenSuccess ==
    (ReturnedState /\ input = "req" /\ last # "analyze_failed"
        /\ vplan[1] = "fail" /\ vplan[2] = "fail" /\ vplan[3] = "pass")
        => (result.success /\ result.retry_count = 2)

\* The Generator succeeded in a run on non-empty requirements, which returned
\* the final state of the graph.
ReturnedGenerated == ReturnedState /\ input = "req" /\ last # "analyze_failed"

\* C11. Escalation approval: when the Generator succeeds, the Validator
\* fails every document and the Escalation approves with a replacement
\* text, run returns success=true and the replacement as acceptance_criteria.
C11_EscalationApproval ==
    (ReturnedGenerated /\ ValidatorAlwaysFails /\ hplan = "approve")
        => (result.success /\ result.acceptance_criteria = Reviewed)

\* C12. Escalation rejection: when the Generator succeeds, the Validator
\* fails every document and the Escalation rejects, run returns
\* success=false and an error_message that names the rejection.
C12_EscalationRejection ==
    (ReturnedGenerated /\ ValidatorAlwaysFails /\ hplan = "reject")
        => /\ ~result.success
           /\ result.error_message = "Human intervention failed: Human rejected the output"

\* C13. First-attempt success: on non-empty requirements, when the
\* Generator succeeds and the Validator passes the first document, run
\* returns success=true, retry_count=0 and a non-empty acceptance_criteria.
C13_FirstAttemptSuccess ==
    (ReturnedGenerated /\ vplan[1] = "pass")
        => /\ result.success
           /\ result.retry_count = 0
           /\ result.acceptance_criteria # ""

\* Such a run has returned.
C13_Witness == ReturnedGenerated /\ vplan[1] = "pass" /\ gcalls = 1

\* The keys of the mapping run is declared to return.
ResultKeys == {"success", "acceptance_criteria", "error_message", "metadata",
               "retry_count"}

\* C14. Result shape: on every path, the except branch of run included, the
\* mapping run returns has the keys success, acceptance_criteria,
\* error_message, metadata and retry_count.
C14_ResultShape == Returned => ResultKeys \subseteq DOMAIN result

\* C15. Whenever run returns success=true, the returned metadata has a
\* validation_details entry.
C15_SuccessHasValidationDetails ==
    (Returned /\ result.success) => result.metadata.validation_details # "absent"

\* C16. Whenever run returns success=false, the returned error_message is
\* non-empty and the returned acceptance_criteria is the empty text.
C16_FailureShape ==
    (Returned /\ ~result.success)
        => /\ result.error_message # ""
           /\ "acceptance_criteria" \in DOMAIN result
           /\ result.acceptance_criteria = ""

\* C17. After a run returned success=true, the file at
\* ACCEPTANCE_CRITERIA_PATH exists and holds the returned acceptance_criteria.
C17_ArtifactMatchesResult ==
    (Returned /\ result.success)
        => (artifact # NoFile /\ artifact = result.acceptance_criteria)

\* A run has returned success=true.
C17_Witness == Returned /\ result.success /\ result.acceptance_criteria = Generated

\* C18. Only accepted documents are persisted: during a run,
\* ACCEPTANCE_CRITERIA_PATH is written only by a handler invocation in which the Validator passes the
\* document or the Escalation approves it.
C18_PersistOnlyAccepted ==
    [][(mode = "run" /\ artifact' # artifact)
           => last' \in {"validate_passed", "human_approved"}]_vars

\* C19. No failure escapes run: whatever the collaborators do, what run
\* returns is a mapping with success and error_message, and a failure or
\* an exception of the Generator ends the run with success=false and the
\* failure in error_message.
C19_FailuresReported ==
    /\ Returned => {"success", "error_message"} \subseteq DOMAIN result
    /\ (mode = "run" /\ last = "analyze_failed")
           => /\ node \in {"END", "returned"}
              /\ st.error_message # ""
              /\ Returned => (~result.success /\ result.error_message # "")

\* The Generator failed or raised in a run, which has returned.
C19_Witness == Returned /\ last = "analyze_failed" /\ gcalls = 1

\* C20. Session isolation: no mutable object of the workflow is written by
\* two concurrent runs: each agent's retry_count has at most one run that
\* wrote it.
C20_SessionIsolation == \A a \in Agents : Cardinality(writers[a]) <= 1

\* The Validator was called in this step and gave outcome v.
ValidatorGave(v) ==
    /\ steps' = steps + 1
    /\ vcalls' = vcalls + 1
    /\ PlanAt(vplan, vcalls') = v

\* C21. When the Validator fails a document while retry_count < max_retries,
\* _validate_criteria increases retry_count by exactly one and clears the
\* criteria, and the graph's edge out of validate_criteria leads to
\* analyze_requirements: the run does not end there.
C21_RetryGoesToAnalyze ==
    [][(ValidatorGave("fail") /\ st.retry_count < max_retries)
           => /\ st'.retry_count = st.retry_count + 1
              /\ st'.acceptance_criteria = ""
              /\ Route("validate_criteria", st') = "analyze_requirements"]_vars

\* The state handed to _should_retry is one the claims C22 and C23 speak of.
Retryable(s) == ~s.is_complete /\ s.error_message = "" /\ ~s.validation_status

\* C22. _should_retry, applied to a state that is not complete, has no
\* error_message, has validation_status=false and retry_count < max_retries,
\* returns "retry" and leaves the state's retry_count increased by one.
C22_ShouldRetryIncrements ==
    [][(mode = "edge" /\ last' = "should_retry"
            /\ Retryable(st) /\ st.retry_count < max_retries)
           => /\ result'.label = "retry"
              /\ st'.retry_count = st.retry_count + 1]_vars

\* C23. Reaching the cap forces escalation: applied to a state that is not
\* complete, has no error_message and has validation_status=false,
\* _should_retry returns "human_intervention" and not "retry" whenever
\* retry_count >= max_retries.
C23_CapForcesEscalation ==
    [][(mode = "edge" /\ last' = "should_retry"
            /\ Retryable(st) /\ st.retry_count >= max_retries)
           => /\ result' = [label |-> "human_intervention"]
              /\ st' = st]_vars

\* _should_retry has answered on a state exactly at the cap.
C23_Witness ==
    /\ mode = "edge" /\ last = "should_retry"
    /\ Retryable(st) /\ st.retry_count = max_retries
    /\ result = [label |-> "human_intervention"]

\* C24. From the initial session state, after any sequence of phase-handler
\* invocations with any collaborator outcomes, retry_count never exceeds
\* max_retries.
C24_RetryCountCapped ==
    mode \in {"run", "direct"} => st.retry_count <= max_retries

\* C25. When the Validator raises during VALIDATE while retry_count <
\* max_retries, the error is treated as a failed validation: retry_count is
\* increased by one, the exception is recorded, and the graph's edge out of
\* validate_criteria leads to analyze_requirements.
C25_ValidatorRaiseRetried ==
    [][(ValidatorGave("raise") /\ st.retry_count < max_retries)
           => /\ st'.retry_count = st.retry_count + 1
              /\ st'.metadata.validation_details = "error"
              /\ st'.error_message # ""
              /\ Route("validate_criteria", st') = "analyze_requirements"]_vars

\* The Generator was called in this step and failed or raised.
GeneratorFailed == steps' = steps + 1 /\ last' = "analyze_failed"

\* C26. When the Generator fails in ANALYZE, the handler leaves error_message
\* set, is_complete=true and retry_count unchanged, the graph's edge leads to
\* END, and the run has executed that one phase only: no VALIDATE and no
\* ESCALATE.
C26_GeneratorFailureEnds ==
    /\ [][GeneratorFailed
             => /\ st'.is_complete
                /\ st'.error_message # ""
                /\ st'.retry_count = st.retry_count
                /\ Route("analyze_requirements", st') = "END"]_vars
    /\ []((mode = "run" /\ last = "analyze_failed")
             => /\ node \in {"END", "returned"}
                /\ steps = 1 /\ vcalls = 0 /\ hcalls = 0)

\* A run whose Generator failed has ended in a terminal state.
C26_Witness ==
    /\ Returned /\ input = "req" /\ last = "analyze_failed"
    /\ result.is_complete /\ vcalls = 0 /\ hcalls = 0

\* C27, as stated. A failure of the Generator on non-empty requirements is
\* retried like a failed validation: a run does not end on it before the
\* Generator was called again and the escalation handler was executed.
C27_GeneratorFailureRetried ==
    (Returned /\ input = "req" /\ last = "analyze_failed")
        => (gcalls > 1 /\ hcalls >= 1)

\* C27, amended. A failure of the Generator on non-empty requirements ends
\* the run at once: run returns success=false with retry_count=0 after one
\* call of the Generator and no escalation.
C27_GeneratorFailureNotRetried ==
    (Returned /\ input = "req" /\ last = "analyze_failed")
        => /\ ~result.success
           /\ result.retry_count = 0
           /\ gcalls = 1
           /\ hcalls = 0

\* A run on non-empty requirements has returned its Generator's failure.
C27_Witness ==
    /\ Returned /\ input = "req" /\ last = "analyze_failed"
    /\ ~result.success /\ steps = 1

\* The last handler invocation was an escalation that called its agent.
Escalated == last \in {"human_raised", "human_approved", "human_rejected"}

\* C28. ESCALATE is always followed by DONE: whatever the escalation does
\* (approve, reject, raise), _handle_human_intervention leaves
\* is_complete=true, _should_end returns "end" and the graph's edge out of
\* human_intervention leads to END, not to analyze_requirements.
C28_EscalateThenDone ==
    Escalated
        => /\ st.is_complete
           /\ should_end(st) = "end"
           /\ Route("human_intervention", st) = "END"

\* An escalation whose capability raised has been handled.
C28_Witness == Escalated /\ hplan = "raise" /\ hcalls = 1 /\ st.error_message # ""

\* C29. When _handle_human_intervention runs on a non-terminal state with
\* non-empty requirements and criteria and the reviewer approves (the
\* repository's simulated reviewer always does), the handler ends with the
\* criteria replaced by the reviewed text, validation_status=true,
\* error_message empty, the reviewed text persisted and is_complete=true.
C29_ApprovalEffects ==
    [][(/\ steps' = steps + 1 /\ hcalls' = hcalls + 1
        /\ hplan \in {"agent", "approve"}
        /\ ~st.is_complete /\ st.requirements # "" /\ st.acceptance_criteria # "")
           => /\ st'.acceptance_criteria = Reviewed
              /\ st'.validation_status
              /\ st'.error_message = ""
              /\ artifact' = Reviewed
              /\ st'.is_complete]_vars

\* C30. A successful validation short-circuits to DONE whatever the retry
\* counter: when the Validator passes, _validate_criteria sets
\* validation_status=true and is_complete=true and leaves retry_count, and
\* the graph's edge leads to END: neither a retry nor an escalation follows.
C30_PassShortCircuits ==
    [][ValidatorGave("pass")
           => /\ st'.validation_status
              /\ st'.is_complete
              /\ st'.retry_count = st.retry_count
              /\ should_retry(st') = "end"
              /\ Route("validate_criteria", st') = "END"]_vars

\* The Validator has passed a document with retry_count at or above the cap.
C30_Witness ==
    last = "validate_passed" /\ st.retry_count >= max_retries /\ st.is_complete

\* A session whose phase handlers are invoked, by the graph or one by one.
Session == mode \in {"run", "direct"}

AnalyzeEvents == {"analyze_ok", "analyze_failed", "analyze_no_input"}
ValidateEvents == {"validate_no_criteria", "validate_raised", "validate_passed",
                   "validate_escalate", "validate_retry"}
HumanEvents == {"human_raised", "human_approved", "human_rejected"}

\* C32. retry_count is monotone: no phase handler decreases it,
\* _analyze_requirements and _handle_human_intervention leave it unchanged,
\* and _validate_criteria increases it by exactly one when the validation
\* fails with a retry and by zero when the validation passes.
C32_RetryCountMonotone ==
    [][steps' = steps + 1
           => /\ st'.retry_count >= st.retry_count
              /\ last' \in AnalyzeEvents \cup HumanEvents \cup {"noop"}
                     => st'.retry_count = st.retry_count
              /\ last' = "validate_retry" => st'.retry_count = st.retry_count + 1
              /\ last' = "validate_passed" => st'.retry_count = st.retry_count]_vars

\* A regeneration after two failed validations has kept the count.
C32_Witness == Session /\ last = "analyze_ok" /\ st.retry_count = 2 /\ vcalls = 2

\* C33. Metadata only accumulates: a key present in metadata after one
\* handler is still present after every later handler, a later successful
\* _analyze_requirements included.
C33_MetadataAccumulates ==
    [][Session
           => /\ st.metadata.validation_details # "absent"
                     => st'.metadata.validation_details # "absent"
              /\ st.metadata.generator => st'.metadata.generator]_vars

\* C34. Every invocation of _validate_criteria on a non-terminal state,
\* whatever the Validator does (pass, fail, raise) and with missing criteria
\* too, leaves a validation_details entry in metadata and a boolean
\* validation_status.
C34_ValidateLeavesDetails ==
    [][(steps' = steps + 1 /\ last' \in ValidateEvents)
           => /\ st'.metadata.validation_details # "absent"
              /\ st'.validation_status \in BOOLEAN]_vars

\* _validate_criteria has been invoked without criteria, and after a raise.
C34_Witness ==
    /\ Session /\ last \in {"validate_no_criteria", "validate_raised"}
    /\ st.metadata.validation_details = "error"

\* C35. Whenever a validation attempt fails, the Validator reporting the
\* failure or raising, metadata.validation_details carries a non-empty
\* itemized list of failures.
C35_FailuresItemized ==
    [][(ValidatorGave("fail") \/ ValidatorGave("raise"))
           => ItemizedFailures(st'.metadata.validation_details)]_vars

\* C36. requirements is immutable once set: no phase handler changes the
\* field, and the requirements in the state run returns equal the argument
\* run was given.
C36_RequirementsImmutable ==
    /\ [][Session => st'.requirements = st.requirements]_vars
    /\ [](ReturnedState => result.requirements = input)

\* A run on non-empty requirements has generated a document and returned.
C36_Witness ==
    /\ ReturnedState /\ input = "req" /\ last = "analyze_ok"
    /\ result.requirements = "req"

\* C37. Routing agrees with the step the handler recorded: in a run, after
\* a phase handler returns, the node the conditional edge leads to is the
\* node that the recorded current_step names.
C37_RoutingFollowsStep ==
    (/\ mode = "run" /\ node # "returned"
     /\ last \in AnalyzeEvents \cup ValidateEvents \cup HumanEvents)
        => node = EdgeTarget(st.current_step)

\* C38. The retry cap is applied consistently: for every retry_count and
\* every value of the workflow's max_retries, a validation the Validator
\* fails is escalated by _validate_criteria exactly when
\* retry_count >= max_retries and retried exactly when
\* retry_count < max_retries.
C38_CapAppliedConsistently ==
    [][ValidatorGave("fail")
           => /\ (last' = "validate_escalate") <=> (st.retry_count >= self_max_retries)
              /\ (last' = "validate_retry") <=> (st.retry_count < self_max_retries)]_vars

\* C39. Error is cleared on recovery: in every state reached by phase
\* handlers, is_complete=true together with validation_status=true implies
\* an empty error_message.
C39_ErrorClearedOnRecovery ==
    (Session /\ st.is_complete /\ st.validation_status) => st.error_message = ""

\* C40. When runs that share ACCEPTANCE_CRITERIA_PATH are interleaved, each
\* run that returns success=true finds, at the moment it returns, the
\* persisted artifact equal to the acceptance_criteria it returns.
C40_ArtifactIsOwn ==
    [][\A i \in DOMAIN sess :
          (/\ sess[i].node # "returned"
           /\ sess'[i].node = "returned"
           /\ sess'[i].result.success)
              => artifact' = sess'[i].result.acceptance_criteria]_vars

====
